---- MODULE Spec2Model ----
(***************************************************************************)
(* US-India CPI dashboard (README.py): one Streamlit script that is run    *)
(* from top to bottom on every user interaction.  The model follows one    *)
(* browser session: the widgets' values survive between runs, everything   *)
(* else is recomputed by the run.                                          *)
(*                                                                         *)
(* Numbers are binary floating-point values with a MantissaBits-bit        *)
(* significand, rounded to nearest (ties to even) after every operation,   *)
(* with the IEEE-754 special values: pandas and numpy compute in float64   *)
(* and return inf or NaN for a division by zero instead of raising.  The   *)
(* exponent is unbounded (no overflow or underflow happens for index and   *)
(* exchange-rate magnitudes) and zero is unsigned (every divisor of the    *)
(* script is non-negative when the input values are).                      *)
(***************************************************************************)
EXTENDS Integers, Sequences, FiniteSets, TLC

\* ------------------------------------------------------------------
\* Bounds of the model
\* ------------------------------------------------------------------
\* significand width of the model's floating-point numbers (float64: 53)
MantissaBits == 11
\* number of monthly records create_sample_data makes (the script: 69)
SampleLen == 14
\* number of distinct outcomes of the unseeded random generator explored
NoiseDraws == 2

\* pct_change(12): the year-over-year offset, in records
YoYPeriod == 12

\* ------------------------------------------------------------------
\* Floating-point arithmetic: <<kind, m, e>> is m * 2^e for kind "fin",
\* an infinity of sign m for kind "inf", and NaN for kind "nan".
\* ------------------------------------------------------------------
RECURSIVE Pow2(_)
Pow2(n) == IF n <= 0 THEN 1 ELSE 2 * Pow2(n - 1)

Abs(n) == IF n < 0 THEN -n ELSE n

Sgn(n) == IF n < 0 THEN -1 ELSE 1

NaN == <<"nan", 0, 0>>

Inf(s) == <<"inf", s, 0>>

Zero == <<"fin", 0, 0>>

IsFin(x) == x[1] = "fin"

IsNaN(x) == x[1] = "nan"

IsInf(x) == x[1] = "inf"

IsZero(x) == x[1] = "fin" /\ x[2] = 0

TwoP == Pow2(MantissaBits)

HalfP == Pow2(MantissaBits - 1)

\* a / d * 2^e (a > 0, d > 0) rounded to MantissaBits bits, ties to even
RECURSIVE RoundPos(_, _, _)
RoundPos(a, d, e) ==
    IF a >= d * TwoP THEN RoundPos(a, 2 * d, e + 1)
    ELSE IF a < d * HalfP THEN RoundPos(2 * a, d, e - 1)
    ELSE LET q == a \div d
             r == a % d
             up == (2 * r > d) \/ (2 * r = d /\ q % 2 = 1)
             m == IF up THEN q + 1 ELSE q
         IN  IF m = TwoP THEN <<HalfP, e + 1>> ELSE <<m, e>>

\* the float nearest to n / d * 2^e (d > 0)
Round(n, d, e) ==
    IF n = 0 THEN Zero
    ELSE LET p == RoundPos(Abs(n), d, e)
         IN  <<"fin", Sgn(n) * p[1], p[2]>>

\* a Python numeric literal or a parsed CSV field: the nearest float
Lit(n, d) == Round(n, d, 0)

One == Lit(1, 1)

Hundred == Lit(100, 1)

FNeg(x) == IF IsNaN(x) THEN NaN ELSE <<x[1], -x[2], x[3]>>

\* the operands of Round are scaled so that the quotient already has about
\* MantissaBits bits: the value rounded is the exact sum, product, quotient
FAdd(x, y) ==
    IF IsNaN(x) \/ IsNaN(y) THEN NaN
    ELSE IF IsInf(x) /\ IsInf(y) THEN (IF x[2] = y[2] THEN x ELSE NaN)
    ELSE IF IsInf(x) THEN x
    ELSE IF IsInf(y) THEN y
    ELSE IF x[2] = 0 THEN y
    ELSE IF y[2] = 0 THEN x
    ELSE IF x[3] >= y[3]
         THEN LET k == Pow2(x[3] - y[3])
              IN  Round(x[2] * k + y[2], k, x[3])
         ELSE LET k == Pow2(y[3] - x[3])
              IN  Round(x[2] + y[2] * k, k, y[3])

FSub(x, y) == FAdd(x, FNeg(y))

FMul(x, y) ==
    IF IsNaN(x) \/ IsNaN(y) THEN NaN
    ELSE IF IsInf(x) \/ IsInf(y)
         THEN (IF IsZero(x) \/ IsZero(y) THEN NaN ELSE Inf(Sgn(x[2]) * Sgn(y[2])))
    ELSE Round(x[2] * y[2], HalfP, x[3] + y[3] + MantissaBits - 1)

FDiv(x, y) ==
    IF IsNaN(x) \/ IsNaN(y) THEN NaN
    ELSE IF IsInf(x) THEN (IF IsInf(y) THEN NaN ELSE Inf(Sgn(x[2]) * Sgn(y[2])))
    ELSE IF IsInf(y) THEN Zero
    ELSE IF IsZero(y) THEN (IF IsZero(x) THEN NaN ELSE Inf(Sgn(x[2])))
    ELSE Round(x[2] * Sgn(y[2]) * HalfP, Abs(y[2]), x[3] - y[3] - (MantissaBits - 1))

\* x < y for finite x and y
FLess(x, y) ==
    IF x[3] >= y[3] THEN x[2] * Pow2(x[3] - y[3]) < y[2]
                    ELSE x[2] < y[2] * Pow2(y[3] - x[3])

\* ------------------------------------------------------------------
\* Tables (DataFrames): the column names in order, and the rows, each a
\* function from column name to value.  Dates are whole numbers.
\* ------------------------------------------------------------------
InputColumns == <<"Date", "US_CPI", "India_CPI", "Exchange_Rate_INR_USD">>

Frame(cols, rows) == [columns |-> cols, rows |-> rows]

EmptyFrame == Frame(<<>>, <<>>)

Row(d, us, india, fx) ==
    [Date |-> d, US_CPI |-> us, India_CPI |-> india, Exchange_Rate_INR_USD |-> fx]

Range(s) == {s[i] : i \in DOMAIN s}

\* frame[name] = values: a column is added at the end (or overwritten in place)
SetColumn(frame, name, values) ==
    Frame(IF name \in Range(frame.columns) THEN frame.columns
                                           ELSE Append(frame.columns, name),
          [i \in DOMAIN frame.rows |->
              [c \in DOMAIN frame.rows[i] \cup {name} |->
                  IF c = name THEN values[i] ELSE frame.rows[i][c]]])

\* frame[name]
Column(frame, name) == [i \in DOMAIN frame.rows |-> frame.rows[i][name]]

\* frame[[names]]
Project(frame, names) ==
    Frame(names,
          [i \in DOMAIN frame.rows |-> [c \in Range(names) |-> frame.rows[i][c]]])

\* np.random.uniform(-w, w) for series s of record i: the outcome of the
\* unseeded generator in the run's draw, a multiple of w / 4 in [-w, w)
UniformSteps(draw, i, s) == ((draw * (i + s) + 3 * i + s) % 8) - 4

\* create_sample_data: monthly records, dates 1 .. SampleLen
create_sample_data(draw) ==
    Frame(InputColumns,
          [k \in 1..SampleLen |->
              LET i == k - 1
                  fi == Lit(i, 1)
                  u1 == Lit(UniformSteps(draw, i, 1), 4000)
                  u2 == Lit(UniformSteps(draw, i, 2), 2000)
                  u3 == Lit(UniformSteps(draw, i, 3), 8)
              IN  Row(k,
                      FMul(Hundred, FAdd(FAdd(One, FMul(Lit(2, 1000), fi)), u1)),
                      FMul(Hundred, FAdd(FAdd(One, FMul(Lit(4, 1000), fi)), u2)),
                      FAdd(FAdd(Lit(70, 1), FMul(fi, Lit(15, 100))), u3))])

\* The CSV files the user may upload, one line per record as <<Date, US_CPI,
\* India_CPI, Exchange_Rate_INR_USD>>, the three values in hundredths: one
\* not sorted by date, one with zero values, one with a missing month and a
\* repeated date.
UploadableFiles ==
    << << <<3, 10400, 10900, 7300>>, <<1, 10000, 10000, 7000>>,
          <<4, 10700, 11300, 7500>>, <<2, 10100, 10300, 7100>> >>,
       << <<1, 0, 10000, 7000>>, <<2, 10100, 0, 7100>>, <<3, 10200, 10500, 0>>,
          <<4, 10300, 10700, 7400>>, <<5, 0, 0, 7500>> >>,
       << <<1, 10000, 10000, 7000>>, <<2, 10080, 10030, 7040>>,
          <<3, 10300, 10300, 7100>>, <<5, 10400, 10700, 7300>>,
          <<6, 10500, 10800, 7200>>, <<7, 10700, 11100, 7400>>,
          <<8, 10800, 11300, 7500>>, <<9, 10900, 11600, 7500>>,
          <<9, 11000, 11800, 7600>>, <<10, 11200, 11900, 7800>>,
          <<11, 11300, 12300, 7700>>, <<12, 11500, 12400, 7900>>,
          <<13, 11600, 12800, 8000>>, <<14, 11800, 12900, 8100>> >> >>

\* pd.read_csv and pd.to_datetime: the lines in file order, nothing sorted,
\* every value the float nearest to its decimal text
read_csv(f) ==
    Frame(InputColumns,
          [k \in DOMAIN UploadableFiles[f] |->
              LET l == UploadableFiles[f][k]
              IN  Row(l[1], Lit(l[2], 100), Lit(l[3], 100), Lit(l[4], 100))])

RECURSIVE SeqMin(_)
SeqMin(s) ==
    IF Len(s) = 1 THEN s[1]
    ELSE LET m == SeqMin(Tail(s)) IN IF s[1] <= m THEN s[1] ELSE m

RECURSIVE SeqMax(_)
SeqMax(s) ==
    IF Len(s) = 1 THEN s[1]
    ELSE LET m == SeqMax(Tail(s)) IN IF s[1] >= m THEN s[1] ELSE m

\* FilterRange with the end bound taken exclusive
FilterRangeExclusiveEnd(frame, s, e) ==
    Frame(frame.columns,
          SelectSeq(frame.rows, LAMBDA r : r.Date >= s /\ r.Date < e))

\* mask = (date >= start_date) & (date <= end_date); df[mask].copy()
FilterRange(frame, s, e) ==
    Frame(frame.columns,
          SelectSeq(frame.rows, LAMBDA r : r.Date >= s /\ r.Date <= e))

\* PctOfFirst without the "- 1"
PctOfFirstAsRatio(col) == FMul(FDiv(col[Len(col)], col[1]), Hundred)

\* ((last / first) - 1) * 100 of one column, by position
PctOfFirst(col) == FMul(FSub(FDiv(col[Len(col)], col[1]), One), Hundred)

\* calculate_metrics(df) for a frame with at least one row
calculate_metrics(frame) ==
    <<PctOfFirst(Column(frame, "US_CPI")),
      PctOfFirst(Column(frame, "India_CPI")),
      PctOfFirst(Column(frame, "Exchange_Rate_INR_USD"))>>

\* pct_change reaching one record short
pct_changeOffByOne(col, periods) ==
    [i \in DOMAIN col |->
        IF i < periods THEN NaN
        ELSE FSub(FDiv(col[i], col[i - periods + 1]), One)]

\* Series.pct_change(periods): NaN for the first `periods` positions
pct_change(col, periods) ==
    [i \in DOMAIN col |->
        IF i <= periods THEN NaN
        ELSE FSub(FDiv(col[i], col[i - periods]), One)]

ScaleBy100(col) == [i \in DOMAIN col |-> FMul(col[i], Hundred)]

\* (series / series.iloc[0]) * 100
Normalized(col) == [i \in DOMAIN col |-> FMul(FDiv(col[i], col[1]), Hundred)]

\* PPPImplied with every record's own rate in place of the first record's
PPPImpliedUnanchored(us, india, fx) ==
    [i \in DOMAIN fx |->
        FDiv(FMul(fx[i], FDiv(india[i], us[i])), FDiv(india[1], us[1]))]

\* fx.iloc[0] * (india / us) / (india.iloc[0] / us.iloc[0])
PPPImplied(us, india, fx) ==
    [i \in DOMAIN fx |->
        FDiv(FMul(fx[1], FDiv(india[i], us[i])), FDiv(india[1], us[1]))]

\* ((fx - implied) / implied) * 100
PPPDeviation(fx, implied) ==
    [i \in DOMAIN fx |->
        FMul(FDiv(FSub(fx[i], implied[i]), implied[i]), Hundred)]

\* to_csv(index=False): the header line, then one line per row; a NaN is
\* written as the empty field, every other value as its text
CsvField(name, v) == IF name = "Date" THEN <<"date", v, 0>>
                     ELSE IF IsNaN(v) THEN <<"", 0, 0>>
                     ELSE v

\* to_csv with the index written as a first, unnamed column (index=True)
to_csvWithIndex(frame) ==
    [header |-> <<"">> \o frame.columns,
     lines  |-> [i \in DOMAIN frame.rows |->
                    <<<<"index", i, 0>>>> \o
                    [k \in DOMAIN frame.columns |->
                        CsvField(frame.columns[k], frame.rows[i][frame.columns[k]])]]]

to_csv(frame) ==
    [header |-> frame.columns,
     lines  |-> [i \in DOMAIN frame.rows |->
                    [k \in DOMAIN frame.columns |->
                        CsvField(frame.columns[k], frame.rows[i][frame.columns[k]])]]]

\* ------------------------------------------------------------------
\* State
\* ------------------------------------------------------------------
VARIABLES
    \* the session: what the widgets hold between runs
    data_option,      \* the radio button
    uploaded_file,    \* the file in the uploader: 0 (none) or an index
    start_widget,     \* the "Start Date" input: 0 (its default) or a date
    end_widget,       \* the "End Date" input: 0 (its default) or a date
    widget_range,     \* <<min_value, max_value>> the date inputs were made with
    show_all,         \* the "Show all columns" checkbox
    \* one run of the script
    pc,               \* the next block of the script to execute
    df,               \* the raw table
    min_date, max_date,
    start_date, end_date,
    df_filtered,
    us_inf, india_inf, fx_change, inflation_diff,
    fx_stats,         \* tab2: minimum and maximum rate
    corr_input,       \* tab4: the columns handed to corr()
    display_df,       \* tab5: the table shown
    csv,              \* tab5: the download's content
    error,            \* the exception that ended the run, "" for none
    \* history, for comparing a run with the run before it
    prev

session == <<data_option, uploaded_file, start_widget, end_widget, widget_range, show_all>>

run == <<pc, df, min_date, max_date, start_date, end_date, df_filtered,
         us_inf, india_inf, fx_change, inflation_diff, fx_stats, corr_input,
         display_df, csv, error>>

vars == <<session, run, prev>>

Unset == <<"none", 0, 0>>

EmptyCsv == [header |-> <<>>, lines |-> <<>>]

NoPrev == [valid |-> FALSE]

\* a run starts at the top of the script with nothing computed
FreshRun ==
    /\ pc = "load"
    /\ df = EmptyFrame
    /\ min_date = 0 /\ max_date = 0
    /\ start_date = 0 /\ end_date = 0
    /\ df_filtered = EmptyFrame
    /\ us_inf = Unset /\ india_inf = Unset /\ fx_change = Unset
    /\ inflation_diff = Unset
    /\ fx_stats = <<Unset, Unset>>
    /\ corr_input = EmptyFrame
    /\ display_df = EmptyFrame
    /\ csv = EmptyCsv
    /\ error = ""

Init ==
    /\ data_option = "Use Sample Data"
    /\ uploaded_file = 0
    /\ start_widget = 0 /\ end_widget = 0
    /\ widget_range = <<0, 0>>
    /\ show_all = FALSE
    /\ FreshRun
    /\ prev = NoPrev

\* ------------------------------------------------------------------
\* The script, block by block
\* ------------------------------------------------------------------
\* lines 22-69: the radio button, the uploader, the raw table
LoadData ==
    /\ pc = "load"
    /\ UNCHANGED prev
    /\ \/ /\ data_option = "Use Sample Data"
          /\ \E draw \in 1..NoiseDraws : df' = create_sample_data(draw)
          \* the uploader is not drawn in this run: its file is forgotten
          /\ uploaded_file' = 0
       \/ /\ data_option = "Upload Custom Data"
          /\ uploaded_file # 0
          /\ df' = read_csv(uploaded_file)
          /\ UNCHANGED uploaded_file
       \/ /\ data_option = "Upload Custom Data"
          /\ uploaded_file = 0
          /\ \E draw \in 1..NoiseDraws : df' = create_sample_data(draw)
          /\ UNCHANGED uploaded_file
    /\ pc' = "dates"
    /\ UNCHANGED <<data_option, start_widget, end_widget, widget_range, show_all>>
    /\ UNCHANGED <<min_date, max_date, start_date, end_date, df_filtered,
                   us_inf, india_inf, fx_change, inflation_diff, fx_stats,
                   corr_input, display_df, csv, error>>

\* st.sidebar.date_input(label, value, min_value, max_value): the value the
\* user left in the widget, or `value` when the widget is new (a date input
\* made with other arguments is another widget)
date_input(held, value, lo, hi) ==
    IF widget_range = <<lo, hi>> /\ held # 0 THEN held ELSE value

\* lines 74-78: the two date inputs
DateRange ==
    /\ pc = "dates"
    /\ UNCHANGED prev
    /\ LET lo == SeqMin(Column(df, "Date"))
           hi == SeqMax(Column(df, "Date"))
       IN  /\ min_date' = lo
           /\ max_date' = hi
           /\ start_date' = date_input(start_widget, lo, lo, hi)
           /\ end_date' = date_input(end_widget, hi, lo, hi)
           /\ start_widget' = IF widget_range = <<lo, hi>> THEN start_widget ELSE 0
           /\ end_widget' = IF widget_range = <<lo, hi>> THEN end_widget ELSE 0
           /\ widget_range' = <<lo, hi>>
    /\ pc' = "filter"
    /\ UNCHANGED <<data_option, uploaded_file, show_all>>
    /\ UNCHANGED <<df, df_filtered, us_inf, india_inf, fx_change, inflation_diff,
                   fx_stats, corr_input, display_df, csv, error>>

\* lines 81-82
FilterData ==
    /\ pc = "filter"
    /\ UNCHANGED prev
    /\ df_filtered' = FilterRange(df, start_date, end_date)
    /\ pc' = "metrics"
    /\ UNCHANGED session
    /\ UNCHANGED <<df, min_date, max_date, start_date, end_date, us_inf, india_inf,
                   fx_change, inflation_diff, fx_stats, corr_input, display_df,
                   csv, error>>

\* lines 85-124: the four summary metrics.  On an empty table .iloc[-1]
\* raises IndexError and the run ends there: nothing below is drawn, and
\* the checkbox, not drawn, loses its value.
Metrics ==
    /\ pc = "metrics"
    /\ UNCHANGED prev
    /\ IF Len(df_filtered.rows) = 0
       THEN /\ error' = "IndexError"
            /\ pc' = "crashed"
            /\ show_all' = FALSE
            /\ UNCHANGED <<us_inf, india_inf, fx_change, inflation_diff>>
       ELSE /\ LET m == calculate_metrics(df_filtered)
               IN  /\ us_inf' = m[1]
                   /\ india_inf' = m[2]
                   /\ fx_change' = m[3]
                   /\ inflation_diff' = FSub(m[2], m[1])
            /\ pc' = "tab1"
            /\ UNCHANGED <<error, show_all>>
    /\ UNCHANGED <<data_option, uploaded_file, start_widget, end_widget, widget_range>>
    /\ UNCHANGED <<df, min_date, max_date, start_date, end_date, df_filtered,
                   fx_stats, corr_input, display_df, csv>>

\* lines 172-173: the year-over-year columns
Tab1 ==
    /\ pc = "tab1"
    /\ UNCHANGED prev
    /\ LET us == ScaleBy100(pct_change(Column(df_filtered, "US_CPI"), YoYPeriod))
           f1 == SetColumn(df_filtered, "US_Inflation_YoY", us)
           india == ScaleBy100(pct_change(Column(f1, "India_CPI"), YoYPeriod))
       IN  df_filtered' = SetColumn(f1, "India_Inflation_YoY", india)
    /\ pc' = "tab2"
    /\ UNCHANGED session
    /\ UNCHANGED <<df, min_date, max_date, start_date, end_date, us_inf, india_inf,
                   fx_change, inflation_diff, fx_stats, corr_input, display_df,
                   csv, error>>

\* lines 231-235: minimum and maximum rate (the average, a library sum, is
\* not modelled)
Tab2 ==
    /\ pc = "tab2"
    /\ UNCHANGED prev
    /\ LET fx == Column(df_filtered, "Exchange_Rate_INR_USD")
       IN  fx_stats' = <<CHOOSE x \in Range(fx) :
                             \A y \in Range(fx) : IsFin(y) => ~FLess(y, x),
                         CHOOSE x \in Range(fx) :
                             \A y \in Range(fx) : IsFin(y) => ~FLess(x, y)>>
    /\ pc' = "tab3"
    /\ UNCHANGED session
    /\ UNCHANGED <<df, min_date, max_date, start_date, end_date, df_filtered,
                   us_inf, india_inf, fx_change, inflation_diff, corr_input,
                   display_df, csv, error>>

\* the normalized series stored over the series itself
NormalizedColumnInPlace(name) == name

\* lines 241-243: the column a normalized series is stored in
NormalizedColumn(name) ==
    CASE name = "US_CPI" -> "US_CPI_Normalized"
      [] name = "India_CPI" -> "India_CPI_Normalized"
      [] name = "Exchange_Rate_INR_USD" -> "Exchange_Rate_Normalized"

\* lines 241-243 and 282-283: the normalized and the PPP columns
Tab3 ==
    /\ pc = "tab3"
    /\ UNCHANGED prev
    /\ LET f1 == SetColumn(df_filtered, NormalizedColumn("US_CPI"),
                           Normalized(Column(df_filtered, "US_CPI")))
           f2 == SetColumn(f1, NormalizedColumn("India_CPI"),
                           Normalized(Column(f1, "India_CPI")))
           f3 == SetColumn(f2, NormalizedColumn("Exchange_Rate_INR_USD"),
                           Normalized(Column(f2, "Exchange_Rate_INR_USD")))
           f4 == SetColumn(f3, "PPP_Implied",
                           PPPImplied(Column(f3, "US_CPI"), Column(f3, "India_CPI"),
                                      Column(f3, "Exchange_Rate_INR_USD")))
       IN  df_filtered' =
               SetColumn(f4, "PPP_Deviation",
                         PPPDeviation(Column(f4, "Exchange_Rate_INR_USD"),
                                      Column(f4, "PPP_Implied")))
    /\ pc' = "tab4"
    /\ UNCHANGED session
    /\ UNCHANGED <<df, min_date, max_date, start_date, end_date, us_inf, india_inf,
                   fx_change, inflation_diff, fx_stats, corr_input, display_df,
                   csv, error>>

\* line 316: the columns handed to corr() (the coefficient is the library's)
Tab4 ==
    /\ pc = "tab4"
    /\ UNCHANGED prev
    /\ corr_input' = Project(df_filtered,
                             <<"US_CPI", "India_CPI", "Exchange_Rate_INR_USD">>)
    /\ pc' = "tab5"
    /\ UNCHANGED session
    /\ UNCHANGED <<df, min_date, max_date, start_date, end_date, df_filtered,
                   us_inf, india_inf, fx_change, inflation_diff, fx_stats,
                   display_df, csv, error>>

\* lines 364-367: the table the Data Table tab shows
DisplayTable(frame, all) == IF all THEN frame ELSE Project(frame, InputColumns)

\* lines 362-378: the data table and its download
Tab5 ==
    /\ pc = "tab5"
    /\ UNCHANGED prev
    /\ display_df' = DisplayTable(df_filtered, show_all)
    /\ csv' = to_csv(DisplayTable(df_filtered, show_all))
    /\ pc' = "done"
    /\ UNCHANGED session
    /\ UNCHANGED <<df, min_date, max_date, start_date, end_date, df_filtered,
                   us_inf, india_inf, fx_change, inflation_diff, fx_stats,
                   corr_input, error>>

\* ------------------------------------------------------------------
\* The user: every interaction with a widget reruns the script from the top
\* ------------------------------------------------------------------
Finished == pc \in {"done", "crashed"}

\* what the finished run took as input and what it showed
RunRecord ==
    [valid |-> TRUE, data_option |-> data_option, uploaded_file |-> uploaded_file,
     start_date |-> start_date, end_date |-> end_date,
     df_filtered |-> df_filtered,
     metrics |-> <<us_inf, india_inf, fx_change, inflation_diff>>]

Rerun ==
    /\ pc' = "load"
    /\ df' = EmptyFrame
    /\ min_date' = 0 /\ max_date' = 0
    /\ start_date' = 0 /\ end_date' = 0
    /\ df_filtered' = EmptyFrame
    /\ us_inf' = Unset /\ india_inf' = Unset /\ fx_change' = Unset
    /\ inflation_diff' = Unset
    /\ fx_stats' = <<Unset, Unset>>
    /\ corr_input' = EmptyFrame
    /\ display_df' = EmptyFrame
    /\ csv' = EmptyCsv
    /\ error' = ""

\* Every user action takes, last, the value `prev` has after it: `prev` is a
\* history variable, no state of the program.

\* line 22: the radio button
ChooseDataOption(o, h) ==
    /\ Finished
    /\ o # data_option
    /\ data_option' = o
    /\ Rerun
    /\ prev' = h
    /\ UNCHANGED <<uploaded_file, start_widget, end_widget, widget_range, show_all>>

\* line 59: a file is put in the uploader, or taken out of it (f = 0)
UploadFile(f, h) ==
    /\ Finished
    /\ data_option = "Upload Custom Data"
    /\ f # uploaded_file
    /\ uploaded_file' = f
    /\ Rerun
    /\ prev' = h
    /\ UNCHANGED <<data_option, start_widget, end_widget, widget_range, show_all>>

\* line 77: the widget offers the dates from min_value to max_value
SetStartDate(d, h) ==
    /\ Finished
    /\ d \in min_date..max_date
    /\ d # start_date
    /\ start_widget' = d
    /\ Rerun
    /\ prev' = h
    /\ UNCHANGED <<data_option, uploaded_file, end_widget, widget_range, show_all>>

\* line 78
SetEndDate(d, h) ==
    /\ Finished
    /\ d \in min_date..max_date
    /\ d # end_date
    /\ end_widget' = d
    /\ Rerun
    /\ prev' = h
    /\ UNCHANGED <<data_option, uploaded_file, start_widget, widget_range, show_all>>

\* line 362
ToggleShowAll(h) ==
    /\ pc = "done"
    /\ show_all' = ~show_all
    /\ Rerun
    /\ prev' = h
    /\ UNCHANGED <<data_option, uploaded_file, start_widget, end_widget, widget_range>>

\* line 373: a click on the download button reruns the script as well
ClickDownload(h) ==
    /\ pc = "done"
    /\ Rerun
    /\ prev' = h
    /\ UNCHANGED session

DataOptions == {"Use Sample Data", "Upload Custom Data"}

\* every date a table of the model holds, and the days between them
AllDates ==
    LET held == (1..SampleLen) \cup
                UNION {{UploadableFiles[f][k][1] : k \in DOMAIN UploadableFiles[f]} :
                       f \in DOMAIN UploadableFiles}
    IN  1..(CHOOSE m \in held : \A d \in held : d <= m)

Next ==
    \/ LoadData
    \/ DateRange
    \/ FilterData
    \/ Metrics
    \/ Tab1
    \/ Tab2
    \/ Tab3
    \/ Tab4
    \/ Tab5
    \/ \E o \in DataOptions : ChooseDataOption(o, prev)
    \/ \E f \in 0..Len(UploadableFiles) : UploadFile(f, prev)
    \/ \E d \in AllDates : SetStartDate(d, prev)
    \/ \E d \in AllDates : SetEndDate(d, prev)
    \/ ToggleShowAll(prev)
    \/ ClickDownload(prev)

Spec == Init /\ [][Next]_vars

\* The same session with the run before remembered in `prev`, the user
\* moving the date inputs to their ends only.
NextHistory ==
    \/ LoadData
    \/ DateRange
    \/ FilterData
    \/ Metrics
    \/ Tab1
    \/ Tab2
    \/ Tab3
    \/ Tab4
    \/ Tab5
    \/ \E o \in DataOptions : ChooseDataOption(o, RunRecord)
    \/ \E f \in 0..Len(UploadableFiles) : UploadFile(f, RunRecord)
    \/ \E d \in AllDates : d \in {min_date, max_date} /\ SetStartDate(d, RunRecord)
    \/ \E d \in AllDates : d \in {min_date, max_date} /\ SetEndDate(d, RunRecord)
    \/ ToggleShowAll(RunRecord)
    \/ ClickDownload(RunRecord)

SpecHistory == Init /\ [][NextHistory]_vars

\* ------------------------------------------------------------------
\* Properties
\* ------------------------------------------------------------------
DerivedColumns ==
    <<"US_Inflation_YoY", "India_Inflation_YoY", "US_CPI_Normalized",
      "India_CPI_Normalized", "Exchange_Rate_Normalized", "PPP_Implied",
      "PPP_Deviation">>

InRange(r) == start_date <= r.Date /\ r.Date <= end_date

\* the raw records of the selected range, in the raw table's order
RECURSIVE Selected(_)
Selected(k) ==
    IF k = 0 THEN <<>>
    ELSE IF InRange(df.rows[k]) THEN Append(Selected(k - 1), df.rows[k])
    ELSE Selected(k - 1)

SelectedRows == Selected(Len(df.rows))

InputsOf(r) == [c \in Range(InputColumns) |-> r[c]]

MetricsShown == pc \in {"tab1", "tab2", "tab3", "tab4", "tab5", "done"}

\* the spec's cumulative_change: (last / first - 1) * 100
CumulativeChange(first, last) == FMul(FSub(FDiv(last, first), One), Hundred)

NonZero(x) == IsFin(x) /\ x[2] # 0

\* a zero that some computation of the script divides by
ZeroDivisor ==
    \/ \E i \in DOMAIN df_filtered.rows :
          \/ IsZero(df_filtered.rows[i].US_CPI)
          \/ IsZero(df_filtered.rows[i].India_CPI)
    \/ /\ Len(df_filtered.rows) > 0
       /\ IsZero(df_filtered.rows[1].Exchange_Rate_INR_USD)

Placeholder(x) == IsInf(x) \/ IsNaN(x)

\* C1 (as claimed): a run whose date range selects no record ends in an
\* explicit EmptyRangeError, not in another exception.
C1_EmptyRangeError ==
    (pc \in {"tab1", "tab2", "tab3", "tab4", "tab5", "done", "crashed"}
        /\ SelectedRows = <<>>)
    => error = "EmptyRangeError"

\* C2 (as claimed): when the filtered table holds a zero that is divided by,
\* the run ends in DivisionByZeroError and shows no infinite or NaN metric.
C2_DivisionByZeroError ==
    (MetricsShown /\ ZeroDivisor)
    => /\ error = "DivisionByZeroError"
       /\ ~Placeholder(us_inf) /\ ~Placeholder(india_inf)
       /\ ~Placeholder(fx_change) /\ ~Placeholder(inflation_diff)

\* C3 (as claimed): when the filter mask is computed the bounds satisfy
\* min(raw.date) <= start_date <= end_date <= max(raw.date).
C3_BoundsOrdered ==
    pc = "filter"
    => /\ min_date <= start_date
       /\ start_date <= end_date
       /\ end_date <= max_date

\* C4 (as claimed): two consecutive runs of a session with the same data
\* source selection and the same dates show the same filtered table, derived
\* columns and summary metrics.
C4_SameSelectionSameOutput ==
    (Finished /\ prev.valid
        /\ prev.data_option = data_option
        /\ prev.uploaded_file = uploaded_file
        /\ prev.start_date = start_date
        /\ prev.end_date = end_date)
    => /\ prev.df_filtered = df_filtered
       /\ prev.metrics = <<us_inf, india_inf, fx_change, inflation_diff>>

\* the positions of the raw table whose record lies in the date range
SelectedPositions == {i \in DOMAIN df.rows : InRange(df.rows[i])}

\* the raw position of the j-th record of the range
PositionOf(j) ==
    CHOOSE i \in SelectedPositions :
        Cardinality({k \in SelectedPositions : k <= i}) = j

ExactlyTheRange ==
    /\ Len(df_filtered.rows) = Cardinality(SelectedPositions)
    /\ \A j \in DOMAIN df_filtered.rows : df_filtered.rows[j] = df.rows[PositionOf(j)]

Contiguous ==
    \A i, k \in SelectedPositions :
        \A j \in DOMAIN df.rows : (i < j /\ j < k) => j \in SelectedPositions

SortedByDate ==
    \A i, j \in DOMAIN df.rows : i < j => df.rows[i].Date <= df.rows[j].Date

Refiltered == FilterRange(df_filtered, start_date, end_date) = df_filtered

\* C5 (as claimed): the filtered table is exactly the records of the range
\* in their original order, these form a contiguous run of the raw table,
\* and filtering again changes nothing.
C5_ContiguousAlways ==
    pc = "metrics" => (ExactlyTheRange /\ Contiguous /\ Refiltered)

\* C5 (amended): the filtered table is exactly the records of the range in
\* their original order and filtering again changes nothing; the records
\* form a contiguous run of the raw table when it is sorted by date.
C5_FilterExact ==
    pc = "metrics"
    => /\ ExactlyTheRange
       /\ Refiltered
       /\ SortedByDate => Contiguous

\* C5 reached: a sorted raw table filtered to a proper inner range
C5_Witness ==
    /\ pc = "metrics"
    /\ SortedByDate
    /\ Len(df_filtered.rows) >= 2
    /\ start_date > min_date /\ end_date < max_date

\* C6: each summary metric is (last / first - 1) * 100 of its own series
\* over the first and last record of the range, and the differential is the
\* India change minus the US change.
C6_SummaryMetrics ==
    (pc = "tab1" /\ SelectedRows # <<>>)
    => LET first == SelectedRows[1]
           last == SelectedRows[Len(SelectedRows)]
       IN  (NonZero(first.US_CPI) /\ NonZero(first.India_CPI)
               /\ NonZero(first.Exchange_Rate_INR_USD))
           => /\ us_inf = CumulativeChange(first.US_CPI, last.US_CPI)
              /\ india_inf = CumulativeChange(first.India_CPI, last.India_CPI)
              /\ fx_change = CumulativeChange(first.Exchange_Rate_INR_USD,
                                              last.Exchange_Rate_INR_USD)
              /\ inflation_diff = FSub(india_inf, us_inf)
              /\ IsFin(us_inf) /\ IsFin(india_inf) /\ IsFin(fx_change)

\* C6 reached: metrics of a range that starts after the first raw record
C6_Witness ==
    /\ pc = "tab1"
    /\ Len(df_filtered.rows) >= 2
    /\ start_date > min_date
    /\ NonZero(us_inf) /\ NonZero(india_inf) /\ NonZero(fx_change)
    /\ NonZero(inflation_diff)

\* C7: in a filtered table of more than 12 records both YoY columns are
\* null at the first 12 records and (series[i] / series[i - 12] - 1) * 100
\* from then on, the offset counted in records of the range.
C7_YearOverYear ==
    (pc = "tab2" /\ Len(SelectedRows) > YoYPeriod)
    => \A i \in DOMAIN SelectedRows :
          LET r == df_filtered.rows[i]
          IN  IF i <= YoYPeriod
              THEN IsNaN(r.US_Inflation_YoY) /\ IsNaN(r.India_Inflation_YoY)
              ELSE LET b == SelectedRows[i - YoYPeriod]
                       c == SelectedRows[i]
                   IN  /\ NonZero(b.US_CPI)
                          => /\ r.US_Inflation_YoY = CumulativeChange(b.US_CPI, c.US_CPI)
                             /\ IsFin(r.US_Inflation_YoY)
                       /\ NonZero(b.India_CPI)
                          => /\ r.India_Inflation_YoY =
                                    CumulativeChange(b.India_CPI, c.India_CPI)
                             /\ IsFin(r.India_Inflation_YoY)

\* C7 reached: more than 12 records in a range that starts after the first
\* raw record, the 13th with a defined YoY value
C7_Witness ==
    /\ pc = "tab2"
    /\ Len(df_filtered.rows) > YoYPeriod
    /\ start_date > min_date
    /\ NonZero(df_filtered.rows[YoYPeriod + 1].US_Inflation_YoY)
    /\ NonZero(df_filtered.rows[YoYPeriod + 1].India_Inflation_YoY)

ValidCPI ==
    /\ SelectedRows # <<>>
    /\ \A i \in DOMAIN SelectedRows :
          NonZero(SelectedRows[i].US_CPI) /\ NonZero(SelectedRows[i].India_CPI)

PPPFormula ==
    \A i \in DOMAIN SelectedRows :
        df_filtered.rows[i].PPP_Implied =
            FDiv(FMul(SelectedRows[1].Exchange_Rate_INR_USD,
                      FDiv(SelectedRows[i].India_CPI, SelectedRows[i].US_CPI)),
                 FDiv(SelectedRows[1].India_CPI, SelectedRows[1].US_CPI))

\* |x - y| <= |y| * 2^-(MantissaBits - 2), for finite x and y
WithinRounding(x, y) ==
    /\ IsFin(x) /\ IsFin(y)
    /\ LET e == IF x[3] <= y[3] THEN x[3] ELSE y[3]
           a == x[2] * Pow2(x[3] - e)
           b == y[2] * Pow2(y[3] - e)
       IN  Abs(a - b) * Pow2(MantissaBits - 2) <= Abs(b)

\* C8 (as claimed): PPP_Implied of the first record of the range equals that
\* record's Exchange_Rate_INR_USD, and PPP_Implied follows the formula.
C8_AnchorExact ==
    (pc = "tab4" /\ ValidCPI)
    => /\ df_filtered.rows[1].PPP_Implied = SelectedRows[1].Exchange_Rate_INR_USD
       /\ PPPFormula

\* C8 (amended): PPP_Implied is fx[0] * (India[i] / US[i]) / (India[0] / US[0])
\* computed in floating point in that order; at the first record it equals
\* the actual rate up to the rounding of its two operations, and exactly
\* when India_CPI and US_CPI of that record are equal.
C8_AnchorRounded ==
    (pc = "tab4" /\ ValidCPI)
    => /\ PPPFormula
       /\ WithinRounding(df_filtered.rows[1].PPP_Implied,
                         SelectedRows[1].Exchange_Rate_INR_USD)
       /\ SelectedRows[1].India_CPI = SelectedRows[1].US_CPI
          => df_filtered.rows[1].PPP_Implied = SelectedRows[1].Exchange_Rate_INR_USD

\* C8 reached: valid CPI values for which the anchor is off by rounding
C8_Witness ==
    /\ pc = "tab4"
    /\ ValidCPI
    /\ Len(df_filtered.rows) >= 2
    /\ NonZero(SelectedRows[1].Exchange_Rate_INR_USD)
    /\ df_filtered.rows[1].PPP_Implied # SelectedRows[1].Exchange_Rate_INR_USD
    /\ df_filtered.rows[2].PPP_Implied # df_filtered.rows[1].PPP_Implied

\* C9: the table of the Data Table tab and the downloaded CSV are the same
\* table: the four input columns of the filtered records, followed by the
\* seven derived columns exactly when "show all" is ticked.
C9_TableAndCsv ==
    pc = "done"
    => /\ display_df.columns = (IF show_all THEN InputColumns \o DerivedColumns
                                            ELSE InputColumns)
       /\ Len(display_df.rows) = Len(SelectedRows)
       /\ \A i \in DOMAIN display_df.rows :
             /\ DOMAIN display_df.rows[i] = Range(display_df.columns)
             /\ InputsOf(display_df.rows[i]) = SelectedRows[i]
             /\ \A c \in Range(display_df.columns) :
                   display_df.rows[i][c] = df_filtered.rows[i][c]
       /\ csv.header = display_df.columns
       /\ Len(csv.lines) = Len(display_df.rows)
       /\ \A i \in DOMAIN csv.lines :
             /\ Len(csv.lines[i]) = Len(csv.header)
             /\ \A k \in DOMAIN csv.header :
                   LET v == display_df.rows[i][csv.header[k]]
                       t == csv.lines[i][k]
                   IN  IF csv.header[k] = "Date" THEN t = <<"date", v, 0>>
                       ELSE IF IsNaN(v) THEN t = <<"", 0, 0>>
                       ELSE t = v

\* C9 reached: "show all" ticked, all eleven columns in the download
C9_Witness ==
    /\ pc = "done"
    /\ show_all
    /\ Len(csv.header) = Len(InputColumns) + Len(DerivedColumns)
    /\ Len(csv.lines) > YoYPeriod

\* the table the run loaded
Loaded ==
    IF data_option = "Upload Custom Data" /\ uploaded_file # 0
    THEN df = read_csv(uploaded_file)
    ELSE \E draw \in 1..NoiseDraws : df = create_sample_data(draw)

\* C10: once every tab is computed the raw table is the table that was
\* loaded, and the four input columns of the filtered table, as well as the
\* columns handed to corr(), hold the values the filter selected.
C10_InputsUntouched ==
    pc \in {"tab5", "done"}
    => /\ Loaded
       /\ Len(df_filtered.rows) = Len(SelectedRows)
       /\ \A i \in DOMAIN SelectedRows :
             /\ InputsOf(df_filtered.rows[i]) = SelectedRows[i]
             /\ \A c \in DOMAIN corr_input.rows[i] :
                   corr_input.rows[i][c] = SelectedRows[i][c]
       /\ Len(corr_input.rows) = Len(SelectedRows)
       /\ SubSeq(df_filtered.columns, 1, Len(InputColumns)) = InputColumns

\* C10 reached: all derived columns added to a proper part of the raw table
C10_Witness ==
    /\ pc = "done"
    /\ Len(df_filtered.columns) = Len(InputColumns) + Len(DerivedColumns)
    /\ Len(df_filtered.rows) >= 2
    /\ Len(df_filtered.rows) < Len(df.rows)
    /\ df_filtered.rows[2].US_CPI_Normalized # df_filtered.rows[2].US_CPI

====
